---- MODULE Spec2Model ----
(***************************************************************************)
(* Model of modoboa_installer/scripts/modoboa.py: class Modoboa.           *)
(*                                                                         *)
(* One installation run is post_run(): _setup_venv, then _deploy_instance, *)
(* then apply_settings, strictly in that order; an exception raised by a   *)
(* step unwinds the run.  Python strings are TLA+ strings; a string that   *)
(* the code inspects character by character (the operator's answer, a      *)
(* version constraint) is a sequence of one-character/chunk strings.       *)
(***************************************************************************)
EXTENDS Naturals, Sequences, FiniteSets, TLC

(* ---------------------------- bounds ----------------------------------- *)

\* Longest extension list read from the configuration.
MaxExtensions == 2

\* Exit codes of the external deploy tool range over 0..MaxExitCode.
MaxExitCode == 1

(* ------------------------ input domains -------------------------------- *)

ExtensionNames == {"modoboa-amavis", "modoboa-radicale", "modoboa-contacts"}

\* Values of config.get("modoboa", "version").
Versions == {"latest", "1.9.0", "1.9.1", "1.10.0"}

\* Values of config.get("database", "engine") as seen through self.dbengine.
Engines == {"postgres", "mysql", "sqlite"}

\* Strings typed by the operator at the confirmation prompt.
Answers ==
    { <<>>, <<"n">>, <<"N">>, <<"n", "o">>, <<"N", "O">>, <<"y">>, <<"Y">>,
      <<"y", "n">>, <<" ", "n">> }

\* Combined output captured from the deploy tool.
Outputs == {"deploy ok", "deploy error"}

RECURSIVE SeqsUpTo(_, _)
SeqsUpTo(S, n) ==
    IF n = 0 THEN { <<>> }
    ELSE LET shorter == SeqsUpTo(S, n - 1)
         IN  shorter \cup { Append(s, x) : s \in shorter, x \in S }

ExtensionLists == SeqsUpTo(ExtensionNames, MaxExtensions)

(* ------------------- compatibility_matrix module ----------------------- *)

\* COMPATIBILITY_MATRIX: application version -> extension -> constraint.
\* A constraint is the sequence of chunks of its string ("<=1.1.0" is
\* <<"<", "=1.1.0">>) so that the escaping of "<" and ">" can be computed.
COMPATIBILITY_MATRIX ==
    [v \in {"1.9.0", "1.10.0"} |->
        IF v = "1.9.0"
        THEN [e \in {"modoboa-contacts", "modoboa-amavis"} |->
                 IF e = "modoboa-contacts" THEN <<"<", "=0.2.0">>
                                           ELSE <<">", "=1.0.0">>]
        ELSE [e \in {"modoboa-radicale"} |-> <<"<", "1.2">>]]

\* Minimum versions that EXTENSIONS_AVAILABILITY may record.
MinVersions == {"1.10.0"}

\* Candidate EXTENSIONS_AVAILABILITY tables: extension -> minimum version.
AvailabilityTables ==
    UNION { [S -> MinVersions] : S \in SUBSET {"modoboa-amavis", "modoboa-contacts"} }

(* ----------------------------- utils ----------------------------------- *)

\* str.split(".") followed by int() on each segment.
VersionSegments ==
    [v \in {"1.9.0", "1.9.1", "1.10.0"} |->
        CASE v = "1.9.0"  -> <<1, 9, 0>>
          [] v = "1.9.1"  -> <<1, 9, 1>>
          [] v = "1.10.0" -> <<1, 10, 0>>]

\* Weight of one dotted segment in the integer key.
SegmentBase == 256

RECURSIVE WeightedSum(_)
WeightedSum(segs) ==
    IF segs = <<>> THEN 0
    ELSE WeightedSum(SubSeq(segs, 1, Len(segs) - 1)) * SegmentBase + segs[Len(segs)]

\* utils.convert_version_to_int
convert_version_to_int(version) == WeightedSum(VersionSegments[version])

\* str.lower() on one character.
LowerChar(c) ==
    CASE c = "N" -> "n"
      [] c = "O" -> "o"
      [] c = "Y" -> "y"
      [] OTHER   -> c

\* answer.lower()
Lower(s) == [i \in 1..Len(s) |-> LowerChar(s[i])]

\* str.startswith(prefix)
StartsWith(s, prefix) ==
    /\ Len(s) >= Len(prefix)
    /\ SubSeq(s, 1, Len(prefix)) = prefix

\* list.remove(x): drop the first occurrence of x.
RECURSIVE Remove(_, _)
Remove(s, x) ==
    IF s = <<>> THEN <<>>
    ELSE IF Head(s) = x THEN Tail(s)
    ELSE <<Head(s)>> \o Remove(Tail(s), x)

Contains(s, x) == \E i \in 1..Len(s) : s[i] = x

\* req_version.replace("<", "\<").replace(">", "\>"), joined back to a string.
RECURSIVE Escape(_)
Escape(req) ==
    IF req = <<>> THEN ""
    ELSE (CASE Head(req) = "<" -> "\\<"
            [] Head(req) = ">" -> "\\>"
            [] OTHER           -> Head(req)) \o Escape(Tail(req))

(* ------------------------------ state ---------------------------------- *)

VARIABLES
    version,          \* config.get("modoboa", "version")
    availability,     \* compatibility_matrix.EXTENSIONS_AVAILABILITY
    dbengine,         \* self.dbengine
    devmode,          \* self.devmode
    force,            \* config.getboolean("general", "force")
    configured,       \* config.get("modoboa", "extensions").split()
    amavis_service,   \* config.getboolean("amavis", "enabled")
    requested,        \* self.extensions as left by __init__
    extensions,       \* self.extensions
    amavis_enabled,   \* self.amavis_enabled
    target,           \* <home_dir>/instance: "absent", "old" or "fresh"
    configRow,        \* core_localconfig._parameters
    pc,               \* position of post_run
    err,              \* exception that unwound the run
    installs,         \* package lists passed to python.install_packages
    events,           \* external effects of the run, in order
    answered,         \* what the operator typed, <<"-">> when not prompted
    deployCall,       \* arguments the deploy tool was invoked with
    legacy_python,    \* sys.version_info.major == 2 and .micro < 9
    logsSeen          \* log paths os.path.exists found in apply_settings

vars == << version, availability, dbengine, devmode, force, configured,
           amavis_service, requested,
           extensions, amavis_enabled, target, configRow, pc, err,
           installs, events, answered, deployCall, legacy_python, logsSeen >>

NoError == [type |-> "none", msg |-> ""]
NotPrompted == <<"-">>
NoCall == [invoked |-> FALSE, devel |-> FALSE, extensions |-> <<>>,
           dburls |-> <<>>, targetSeen |-> "absent", code |-> 0, output |-> ""]

PreviousRow == [core |-> [secret_key |-> "previous key"]]

(* ---------------------------- __init__ --------------------------------- *)

\* self.amavis_enabled after the "sanity check for amavis".
InitAmavisEnabled(exts, service) ==
    Contains(exts, "modoboa-amavis") /\ service

\* self.extensions after the "sanity check for amavis".
InitExtensions(exts, service) ==
    IF Contains(exts, "modoboa-amavis") /\ ~service
    THEN Remove(exts, "modoboa-amavis")
    ELSE exts

Init ==
    /\ version \in Versions
    /\ availability \in AvailabilityTables
    /\ dbengine \in Engines
    /\ devmode \in BOOLEAN
    /\ force \in BOOLEAN
    /\ configured \in ExtensionLists
    /\ amavis_service \in BOOLEAN
    /\ requested = InitExtensions(configured, amavis_service)
    /\ extensions = InitExtensions(configured, amavis_service)
    /\ amavis_enabled = InitAmavisEnabled(configured, amavis_service)
    /\ target \in {"absent", "old"}
    /\ configRow = PreviousRow
    /\ pc = "setup_venv"
    /\ err = NoError
    /\ installs = <<>>
    /\ events = <<>>
    /\ answered = NotPrompted
    /\ deployCall = NoCall
    /\ legacy_python \in BOOLEAN
    /\ logsSeen = {}

(* --------------------------- _setup_venv ------------------------------- *)

\* Variant that trusts a matrix constraint over the availability table.
is_extension_ok_if_constrained(extension, v) ==
    IF extension \notin DOMAIN availability
       \/ extension \in DOMAIN COMPATIBILITY_MATRIX[v]
    THEN TRUE
    ELSE convert_version_to_int(v) >= convert_version_to_int(availability[extension])

is_extension_ok_for_version(extension, v) ==
    IF extension \notin DOMAIN availability
    THEN TRUE
    ELSE convert_version_to_int(v) >= convert_version_to_int(availability[extension])

\* Variant that never pins an extension.
ExtensionSpecBare(extension, matrix) == extension

\* Package spec appended for an extension that passed the version check.
ExtensionSpec(extension, matrix) ==
    IF extension \in DOMAIN matrix
    THEN extension \o Escape(matrix[extension])
    ELSE extension

\* The loop "for extension in list(self.extensions)": copy is what is left
\* of the iterated copy, exts is self.extensions, pkgs is packages.
RECURSIVE ResolveLoop(_, _, _, _, _)
ResolveLoop(copy, exts, pkgs, v, matrix) ==
    IF copy = <<>>
    THEN [extensions |-> exts, packages |-> pkgs]
    ELSE IF ~is_extension_ok_for_version(Head(copy), v)
    THEN ResolveLoop(Tail(copy), Remove(exts, Head(copy)), pkgs, v, matrix)
    ELSE ResolveLoop(Tail(copy), exts,
                     Append(pkgs, ExtensionSpec(Head(copy), matrix)), v, matrix)

\* packages and self.extensions after the version branch.
Resolve(v, exts) ==
    IF v = "latest"
    THEN [extensions |-> exts, packages |-> <<"rrdtool", "modoboa">> \o exts]
    ELSE ResolveLoop(exts, exts, <<"rrdtool", "modoboa==" \o v>>, v,
                     COMPATIBILITY_MATRIX[v])

\* Driver package appended for the configured database engine.
DriverPackage(engine) ==
    IF engine = "postgres" THEN "psycopg2" ELSE "MYSQL-Python"

\* Packages appended when sys.version_info is 2.x.y with y < 9.
SniPackages(legacy) == IF legacy THEN <<"pyOpenSSL">> ELSE <<>>

DevPackages == <<"django-bower", "django-debug-toolbar">>

_setup_venv ==
    /\ pc = "setup_venv"
    /\ IF version # "latest" /\ version \notin DOMAIN COMPATIBILITY_MATRIX
       THEN \* COMPATIBILITY_MATRIX[version] raises KeyError
            /\ pc' = "failed"
            /\ err' = [type |-> "KeyError", msg |-> version]
            /\ events' = Append(events, "setup_virtualenv")
            /\ UNCHANGED << extensions, installs >>
       ELSE LET r == Resolve(version, extensions)
                packages == r.packages \o <<DriverPackage(dbengine)>>
                                       \o SniPackages(legacy_python)
            IN  /\ extensions' = r.extensions
                /\ installs' = IF devmode
                               THEN installs \o <<packages, DevPackages>>
                               ELSE Append(installs, packages)
                /\ events' = events \o (IF devmode
                                        THEN <<"setup_virtualenv", "install", "install">>
                                        ELSE <<"setup_virtualenv", "install">>)
                /\ pc' = "deploy_instance"
                /\ err' = err
    /\ UNCHANGED << version, availability, dbengine, devmode, force,
                    configured, amavis_service, requested, amavis_enabled,
                    target, configRow, answered, deployCall, legacy_python,
                    logsSeen >>

(* ------------------------- _deploy_instance ---------------------------- *)

\* Variant without lower().
DeclinesCaseSensitive(answer) == StartsWith(answer, <<"n">>)

\* answer.lower().startswith("n")
Declines(answer) == StartsWith(Lower(answer), <<"n">>)

\* The operator is asked only for an existing target without the force flag.
Prompts == target # "absent" /\ ~force

\* Variant that removes the target only on the prompted path.
RemovesTargetUnlessForced == target # "absent" /\ ~force

\* shutil.rmtree(target) runs whenever the target exists and the operator
\* did not decline.
RemovesTarget == target # "absent"

\* Variant that tolerates exit code 1.
FailedAboveOne(code) == code > 1

\* "if code:" on the exit code returned by utils.exec_cmd.
Failed(code) == code # 0

\* Database URL arguments: the default one, then the amavis one if enabled.
DbUrls == IF amavis_enabled THEN <<"default", "amavis">> ELSE <<"default">>

_deploy_instance ==
    /\ pc = "deploy_instance"
    /\ \E answer \in (IF Prompts THEN Answers ELSE {NotPrompted}) :
         /\ answered' = answer
         /\ IF Prompts /\ Declines(answer)
            THEN \* return before shutil.rmtree
                 /\ events' = Append(events, "prompt")
                 /\ pc' = "apply_settings"
                 /\ UNCHANGED << target, err, deployCall >>
            ELSE \E code \in 0..MaxExitCode, output \in Outputs :
                 LET seen   == IF RemovesTarget THEN "absent" ELSE target
                     before == (IF Prompts THEN <<"prompt">> ELSE <<>>)
                               \o (IF RemovesTarget THEN <<"rmtree">> ELSE <<>>)
                 IN  /\ events' = events \o before \o <<"exec">>
                     /\ deployCall' = [invoked    |-> TRUE,
                                       devel      |-> devmode,
                                       extensions |-> extensions,
                                       dburls     |-> DbUrls,
                                       targetSeen |-> seen,
                                       code       |-> code,
                                       output     |-> output]
                     /\ IF Failed(code)
                        THEN /\ err' = [type |-> "FatalError", msg |-> output]
                             /\ pc' = "failed"
                             /\ target' = seen
                        ELSE /\ err' = err
                             /\ pc' = "apply_settings"
                             /\ target' = IF seen = "absent" THEN "fresh" ELSE seen
    /\ UNCHANGED << version, availability, dbengine, devmode, force,
                    configured, amavis_service, requested, extensions,
                    amavis_enabled, configRow, installs, legacy_python,
                    logsSeen >>

(* -------------------------- apply_settings ----------------------------- *)

LogPaths == <<"/var/log/maillog", "/var/log/mail.log">>

\* The loop "for path in [...]: if os.path.exists(path): ...logfile = path"
\* over the stats section of the settings; existing is the set of paths
\* present on the filesystem.
RECURSIVE LogfileLoop(_, _, _)
LogfileLoop(paths, existing, stats) ==
    IF paths = <<>> THEN stats
    ELSE LogfileLoop(Tail(paths), existing,
                     IF Head(paths) \in existing
                     THEN [k \in (DOMAIN stats) \cup {"logfile"} |->
                              IF k = "logfile" THEN Head(paths) ELSE stats[k]]
                     ELSE stats)

\* The settings document serialised into the UPDATE query.
Settings(existing) ==
    [admin |-> [handle_mailboxes |-> TRUE, account_auto_removal |-> TRUE],
     core |-> [secret_key |-> "random key"],
     modoboa_amavis |-> [am_pdp_mode |-> "inet"],
     modoboa_stats |-> LogfileLoop(LogPaths, existing,
                                   [rrd_rootdir |-> "<home_dir>/rrdfiles"]),
     modoboa_pdfcredentials |-> [storage_dir |-> "<home_dir>/pdfcredentials"]]

apply_settings ==
    /\ pc = "apply_settings"
    /\ \E existing \in SUBSET {"/var/log/maillog", "/var/log/mail.log"} :
         /\ configRow' = Settings(existing)
         /\ events' = events \o <<"mkdir", "update">>
         /\ logsSeen' = existing
    /\ pc' = "done"
    /\ UNCHANGED << version, availability, dbengine, devmode, force,
                    configured, amavis_service, requested, extensions,
                    amavis_enabled, target, err, installs, answered,
                    deployCall, legacy_python >>

(* ----------------------------- post_run -------------------------------- *)

Next ==
    \/ _setup_venv
    \/ _deploy_instance
    \/ apply_settings

Spec == Init /\ [][Next]_vars

(* ============================ properties =============================== *)

\* The operator was prompted and the answer starts with "n" or "N".
AnsweredNo ==
    /\ answered # NotPrompted
    /\ Len(answered) > 0
    /\ answered[1] \in {"n", "N"}

\* The availability table records for e a minimum version above version.
Gated(e) ==
    /\ e \in DOMAIN availability
    /\ convert_version_to_int(availability[e]) > convert_version_to_int(version)

NotGated(e) == ~Gated(e)

\* Requested extensions that survive version gating, in declared order.
Surviving == SelectSeq(requested, NotGated)

\* The escaped constraints of the matrix, written out.
EscapedConstraints ==
    [v \in {"1.9.0", "1.10.0"} |->
        IF v = "1.9.0"
        THEN [e \in {"modoboa-contacts", "modoboa-amavis"} |->
                 IF e = "modoboa-contacts" THEN "\\<=0.2.0" ELSE "\\>=1.0.0"]
        ELSE [e \in {"modoboa-radicale"} |-> "\\<1.2"]]

\* Every package spec the installer can produce for extension e.
SpecsOf(e) ==
    {e} \cup { e \o EscapedConstraints[v][e] :
                 v \in { w \in DOMAIN EscapedConstraints :
                           e \in DOMAIN EscapedConstraints[w] } }

\* One spec per surviving extension for a version listed in the matrix.
SurvivingSpecs ==
    [i \in 1..Len(Surviving) |->
        IF Surviving[i] \in DOMAIN EscapedConstraints[version]
        THEN Surviving[i] \o EscapedConstraints[version][Surviving[i]]
        ELSE Surviving[i]]

Pinned == version # "latest"

\* C1: when the target exists, force is unset and the operator's answer
\* starts with "n" or "N", the run never performs settings injection: no
\* directory is created and the configuration row is not updated.
C1_DeclineSkipsSettings ==
    AnsweredNo =>
        /\ ~Contains(events, "mkdir")
        /\ ~Contains(events, "update")
        /\ configRow = PreviousRow

\* C2: with an existing target and the force flag set, _deploy_instance
\* does not prompt, removes the directory and only then invokes the deploy
\* tool, which therefore sees an absent target.
C2_ForceRemovesWithoutPrompt ==
    [][ (pc = "deploy_instance" /\ target # "absent" /\ force) =>
            /\ answered' = NotPrompted
            /\ events' = events \o <<"rmtree", "exec">>
            /\ deployCall'.invoked
            /\ deployCall'.targetSeen = "absent" ]_vars

C2_Witness ==
    /\ force
    /\ Contains(events, "rmtree")
    /\ deployCall.invoked
    /\ target = "fresh"

\* C3: with an existing target and the force flag unset, an answer that
\* starts with "n" or "N" leaves the directory in place and the deploy tool
\* is not invoked; any other answer, the empty one included, leads to
\* removal followed by the invocation of the tool.
C3_AnswerDecides ==
    [][ (pc = "deploy_instance" /\ target # "absent" /\ ~force) =>
            /\ answered' \in Answers
            /\ IF Len(answered') > 0 /\ answered'[1] \in {"n", "N"}
               THEN /\ target' = target
                    /\ events' = Append(events, "prompt")
                    /\ deployCall' = NoCall
               ELSE /\ events' = events \o <<"prompt", "rmtree", "exec">>
                    /\ deployCall'.invoked
                    /\ deployCall'.targetSeen = "absent" ]_vars

C3_Witness ==
    /\ answered = <<"N", "O">>
    /\ target = "old"
    /\ ~deployCall.invoked
    /\ pc = "apply_settings"

\* C4: for a pinned version, an extension whose recorded minimum version is
\* greater than the application version has no spec in the package list
\* passed to the install and is not in the extension list passed to the
\* deploy tool, whether or not the matrix constrains it at that version;
\* every other requested extension is kept in both.
C4_GatedExtensionsDropped ==
    (Pinned /\ installs # <<>>) =>
        /\ \A e \in ExtensionNames :
             Gated(e) =>
                /\ \A i \in 1..Len(installs[1]) : installs[1][i] \notin SpecsOf(e)
                /\ ~Contains(extensions, e)
        /\ \A i \in 1..Len(requested) :
             NotGated(requested[i]) =>
                /\ \E j \in 1..Len(installs[1]) : installs[1][j] \in SpecsOf(requested[i])
                /\ Contains(extensions, requested[i])
        /\ extensions = Surviving
        /\ deployCall.invoked => deployCall.extensions = Surviving

C4_Witness ==
    /\ version = "1.9.0"
    /\ Contains(requested, "modoboa-contacts")
    /\ Contains(requested, "modoboa-radicale")
    /\ Gated("modoboa-contacts")
    /\ "modoboa-contacts" \in DOMAIN COMPATIBILITY_MATRIX[version]
    /\ deployCall.invoked
    /\ deployCall.extensions = <<"modoboa-radicale">>

\* C5: when the pinned version has no entry in the compatibility matrix,
\* _setup_venv does not fail and every surviving extension is installed as
\* a bare name.
C5_UnlistedVersionResolves ==
    (Pinned /\ version \notin DOMAIN COMPATIBILITY_MATRIX /\ pc # "setup_venv") =>
        /\ err.type # "KeyError"
        /\ Len(installs) >= 1
        /\ \A i \in 1..Len(Surviving) : Contains(installs[1], Surviving[i])

\* C6: with a supported engine the package list holds exactly one database
\* driver, the one of that engine; with any other engine resolution fails
\* with UnknownDatabaseEngine and nothing is installed.  (A run that has
\* already failed on the matrix lookup of C5 is not held against C6.)
C6_DriverOrUnknownEngine ==
    (pc # "setup_venv" /\ err.type # "KeyError") =>
        IF dbengine \in {"postgres", "mysql"}
        THEN /\ installs # <<>>
             /\ Cardinality({ i \in 1..Len(installs[1]) :
                                installs[1][i] \in {"psycopg2", "MYSQL-Python"} }) = 1
             /\ Contains(installs[1],
                         IF dbengine = "postgres" THEN "psycopg2" ELSE "MYSQL-Python")
        ELSE /\ installs = <<>>
             /\ err.type = "UnknownDatabaseEngine"

\* C7: the logfile written into the settings is the first of
\* /var/log/maillog, /var/log/mail.log that exists; with neither the key is
\* omitted.
C7_FirstExistingLogfile ==
    pc = "done" =>
        LET stats == configRow.modoboa_stats
        IN  IF logsSeen = {}
            THEN "logfile" \notin DOMAIN stats
            ELSE /\ "logfile" \in DOMAIN stats
                 /\ stats["logfile"] = IF "/var/log/maillog" \in logsSeen
                                       THEN "/var/log/maillog"
                                       ELSE "/var/log/mail.log"

\* C8: when the deploy tool exits with a non-zero code, the run is unwound
\* by a fatal error carrying the tool's output, and settings injection is
\* never reached: the configuration row keeps its previous content.
C8_DeployFailureIsFatal ==
    (deployCall.invoked /\ deployCall.code # 0) =>
        /\ pc = "failed"
        /\ err = [type |-> "FatalError", msg |-> deployCall.output]
        /\ ~Contains(events, "mkdir")
        /\ ~Contains(events, "update")
        /\ configRow = PreviousRow

C8_Witness ==
    /\ deployCall.invoked
    /\ deployCall.code = 1
    /\ deployCall.output = "deploy error"
    /\ pc = "failed"

\* C9 as stated: for a pinned version the package list is
\* "modoboa==<version>" first, then one spec per surviving extension in
\* declared order, then the database driver.
C9_PackageListAsStated ==
    (Pinned /\ installs # <<>>) =>
        installs[1] = <<"modoboa==" \o version>> \o SurvivingSpecs
                      \o <<IF dbengine = "postgres" THEN "psycopg2" ELSE "MYSQL-Python">>

\* C9 amended: for a pinned version the package list passed to the install
\* is "rrdtool", then "modoboa==<version>", then one spec per surviving
\* extension in declared order (name plus escaped constraint when the
\* matrix has one, bare name otherwise), then the database driver, then
\* "pyOpenSSL" when the interpreter is a Python 2 with micro version < 9.
C9_PackageList ==
    (Pinned /\ installs # <<>>) =>
        installs[1] = <<"rrdtool", "modoboa==" \o version>> \o SurvivingSpecs
                      \o <<IF dbengine = "postgres" THEN "psycopg2" ELSE "MYSQL-Python">>
                      \o (IF legacy_python THEN <<"pyOpenSSL">> ELSE <<>>)

C9_Witness ==
    /\ version = "1.9.0"
    /\ configured = <<"modoboa-amavis", "modoboa-radicale">>
    /\ ~amavis_service
    /\ installs # <<>>
    /\ installs[1] = <<"rrdtool", "modoboa==1.9.0", "modoboa-radicale", "MYSQL-Python">>

\* C10: when the deploy tool is invoked, the amavis database URL is passed
\* if and only if "modoboa-amavis" is in the extension list passed via
\* --extensions.
C10_AmavisUrlIffExtension ==
    deployCall.invoked =>
        (Contains(deployCall.dburls, "amavis")
            <=> Contains(deployCall.extensions, "modoboa-amavis"))

====
